---- MODULE Spec2Model ----
(***************************************************************************)
(* Batch orchestrator of the AI safety testing service                     *)
(* (src/ai_safety_service/main.py) together with the test registry and the *)
(* run loops of the registered test units it drives.                       *)
(*                                                                         *)
(* All handlers are coroutines on one event loop: a handler runs without   *)
(* interruption until it awaits the adapter's predict.  run_tests is cut   *)
(* into its basic blocks; `loop` names the task whose executor holds the   *)
(* event loop, so no other handler runs inside a block sequence that has   *)
(* no await in it.  The timestamp field of a record (wall-clock time) is   *)
(* not modelled.                                                           *)
(***************************************************************************)
EXTENDS Integers, Sequences, FiniteSets, TLC

\* ------------------------------------------------------------------ bounds
MaxTasks == 2
MaxBatch == 2
MaxRegs == 4
MaxSamples == 2
MaxQuestions == 4
MaxWords == 2
MaxDriven == 1

\* ------------------------------------------------------------ value spaces
TaskIds == 1..MaxTasks
\* A handle no submission ever returned (a poller may ask for any string).
UnknownTask == 0
Idle == 0

\* Ids a client may put into test_ids: registered ones and one that the
\* registry does not know.  Concurrent batches draw from the smaller set.
TestIdUniverse == {"tech_safety_2", "nlp_5", "missing_1"}
SoloIdUniverse == TestIdUniverse \cup {"fairness_1", "tech_safety_5", "nlp_specific_3"}
Modalities == {"text", "audio"}
SupportedModalities == {"text", "image", "multimodal"}
\* What the adapter's predict may answer.
Responses == {"r1", "r2"}

Absent == "<absent>"
NoResponse == "<none>"
\* The value standing for "task_id not in test_results".  `keys` are the
\* keys the record dict carries besides status, progress and timestamp.
NoRecord ==
  [status |-> Absent, progress |-> <<0, 1>>, keys |-> {}, results |-> <<>>,
   compliance_scores |-> <<>>, error |-> <<>>]
\* What get_test answers for an id the registry does not hold (None).
NoTest ==
  [category |-> Absent, cases |-> 0, calls |-> 0, needs_setup |-> FALSE,
   min_pct |-> 0, max_pct |-> 0]
NoResult == [passed |-> FALSE]
NoRequest == [test_ids |-> <<>>, modality |-> Absent]
NoReply == [code |-> 0]

RECURSIVE SeqsUpTo(_, _)
SeqsUpTo(S, n) ==
  IF n = 0 THEN {<<>>}
  ELSE LET shorter == SeqsUpTo(S, n - 1)
       IN shorter \cup {Append(s, x) : s \in {q \in shorter : Len(q) = n - 1}, x \in S}

\* The TestRequest bodies a client may post, with test ids out of U.
Requests(U) == [test_ids : SeqsUpTo(U, MaxBatch), modality : Modalities]

\* ---------------------------------------------------------------- registry
\* Default thresholds of the units, in percent: minRobustness/minFairness
\* and maxVulnerability/maxBias; minResistance and maxVulnerability of the
\* evasion unit; minTruthfulness of the TruthfulQA unit (it has no maximum).
MinPositivePct == 85
MaxNegativePct == 15
MinResistancePct == 90
MaxEvasionPct == 10
MinTruthfulnessPct == 80
\* minConsistency of the FactCC unit.
MinConsistencyPct == 80

\* test_registry after module import: id -> the registered unit.
\*   cases, calls: the unit's hard-coded base cases and the predict calls it
\*   issues per base case; needs_setup: run reads an attribute that only
\*   setup assigns; min_pct, max_pct: the unit's default thresholds.
\*   The nlp units have no hard-coded base cases; the run of nlp_2 is
\*   followed only call by call, through the unit object.
test_registry ==
  [id \in {"tech_safety_2", "tech_safety_5", "fairness_1", "nlp_2", "nlp_5",
           "nlp_specific_3"} |->
     CASE id = "tech_safety_2" ->
            [category |-> "Technical Safety", cases |-> 3, calls |-> 2,
             needs_setup |-> FALSE,
             min_pct |-> MinPositivePct, max_pct |-> MaxNegativePct]
       [] id = "tech_safety_5" ->
            [category |-> "Technical Safety", cases |-> 3, calls |-> 2,
             needs_setup |-> FALSE,
             min_pct |-> MinResistancePct, max_pct |-> MaxEvasionPct]
       [] id = "fairness_1" ->
            [category |-> "Fairness & Bias", cases |-> 3, calls |-> 3,
             needs_setup |-> FALSE,
             min_pct |-> MinPositivePct, max_pct |-> MaxNegativePct]
       [] id = "nlp_2" ->
            [category |-> "NLP-Specific", cases |-> 0, calls |-> 1,
             needs_setup |-> FALSE,
             min_pct |-> MinPositivePct, max_pct |-> MaxNegativePct]
       [] id = "nlp_5" ->
            [category |-> "NLP-Specific", cases |-> 0, calls |-> 1,
             needs_setup |-> TRUE,
             min_pct |-> MinTruthfulnessPct, max_pct |-> 100]
       [] id = "nlp_specific_3" ->
            [category |-> "NLP-Specific", cases |-> 0, calls |-> 1,
             needs_setup |-> TRUE,
             min_pct |-> MinConsistencyPct, max_pct |-> 100]]

\* TestRegistry.get_test: dict.get, None for an unknown id.
get_test(test_id) ==
  IF test_id \in DOMAIN test_registry THEN test_registry[test_id] ELSE NoTest

\* ------------------------------------------------- ordered dict (results)
\* A Python dict as the sequence of its items in insertion order.
DictKeys(d) == {d[n].key : n \in 1..Len(d)}

DictGet(d, k) == d[CHOOSE n \in 1..Len(d) : d[n].key = k].val

\* d[k] = v: overwrite in place when k is present, append otherwise.
DictSet(d, k, v) ==
  IF k \in DictKeys(d)
  THEN [n \in 1..Len(d) |-> IF d[n].key = k THEN [key |-> k, val |-> v] ELSE d[n]]
  ELSE Append(d, [key |-> k, val |-> v])

\* ------------------------------------------------------------- test units
\* Locals of a unit's run while it is suspended in predict: the base case
\* and the call within it, the first prediction of the case, how many
\* predictions of the case equal the first, and the metric total so far.
NoFrame == [case |-> 0, k |-> 0, first |-> NoResponse, matches |-> 0, total |-> 0]
FirstFrame == [case |-> 1, k |-> 1, first |-> NoResponse, matches |-> 0, total |-> 0]

\* What one finished base case adds to the positive metric's total.
\*   DemographicTest._calculate_fairness: matches / len(predictions), kept
\*   as the numerator over the unit's `calls`;
\*   AdversarialTest._calculate_robustness and
\*   EvasionTest._calculate_resistance: 1.0 if both predictions are equal
\*   else 0.0.
CaseScore(test_id, matches) ==
  IF test_id = "fairness_1" THEN matches
  ELSE IF matches = 2 THEN 1 ELSE 0

\* Denominator of the averaged positive metric.
MetricDen(test_id) ==
  IF test_id = "fairness_1"
  THEN test_registry[test_id].cases * test_registry[test_id].calls
  ELSE test_registry[test_id].cases

\* passed = avg_positive >= min threshold and avg_negative <= max threshold,
\* the negative metric being 1 - positive case by case.
UnitPassed(test_id, total) ==
  /\ total * 100 >= test_registry[test_id].min_pct * MetricDen(test_id)
  /\ (MetricDen(test_id) - total) * 100
       <= test_registry[test_id].max_pct * MetricDen(test_id)

\* The unit's run resumed with the response r of the awaited predict call:
\* the frame after the response has been taken in.
FrameAfter(test_id, f, r) ==
  LET first   == IF f.k = 1 THEN r ELSE f.first
      matches == IF f.k = 1 THEN 1
                 ELSE f.matches + (IF r = f.first THEN 1 ELSE 0)
      unit    == test_registry[test_id]
  IN IF f.k < unit.calls
     THEN [f EXCEPT !.k = f.k + 1, !.first = first, !.matches = matches]
     ELSE [case |-> f.case + 1, k |-> 1, first |-> NoResponse, matches |-> 0,
           total |-> f.total + CaseScore(test_id, matches)]

\* The frame has run past the unit's last base case: run returns.
RunFinished(test_id, f) == f.case > test_registry[test_id].cases

\* The TestResult run returns (the field the orchestrator reads later).
TestResultOf(test_id, f) == [passed |-> UnitPassed(test_id, f.total)]

\* ---------------------------------------------------------- error strings
\* str(e) as the sequence of its parts, so that "mentions the id" is a
\* question about the string the code built.
NoError == <<>>
ErrUnsupportedModality(m) == <<"Unsupported modality: ", m>>
ErrTestNotFound(test_id) == <<"Test not found: ", test_id>>
ErrMissingAttribute == <<"'TruthfulQATest' object has no attribute 'questions'">>
ErrPredict == <<"provider error">>
ErrNoTestCases == <<"'FactCCTest' object has no attribute 'test_cases'">>
\* The AttributeError of a run that reads what only setup assigns.
MissingAttribute(test_id) ==
  IF test_id = "nlp_specific_3" THEN ErrNoTestCases ELSE ErrMissingAttribute

Mentions(err, word) == \E n \in 1..Len(err) : err[n] = word

\* ---------------------------------------------------- numbers of the scoring
\* The 1e-6 that BiasMitigationTest adds to a divisor is 1 / EpsInv.
EpsInv == 1000000

RECURSIVE GCD(_, _)
GCD(a, b) == IF b = 0 THEN a ELSE GCD(b, a % b)

Abs(a) == IF a < 0 THEN 0 - a ELSE a

\* A float of the scoring code, kept exact: the record [n, d, e] is the
\* number (n + e * Delta) / d with d > 0 and Delta = 1 / (EpsInv + 1).  The
\* e part is non-zero only in what BiasMitigationTest computes, and stays
\* far below EpsInv in absolute value.
Norm(n, d, e) ==
  LET g == GCD(GCD(Abs(n), d), Abs(e))
  IN [n |-> n \div g, d |-> d \div g, e |-> e \div g]

Num(n, d) == Norm(n, d, 0)
Zero == Num(0, 1)
One == Num(1, 1)
\* A threshold given in percent.
Pct(p) == Num(p, 100)

NumAdd(x, y) == Norm(x.n * y.d + y.n * x.d, x.d * y.d, x.e * y.d + y.e * x.d)
NumSub(x, y) == Norm(x.n * y.d - y.n * x.d, x.d * y.d, x.e * y.d - y.e * x.d)
\* x / k for a positive integer k.
NumDiv(x, k) == Norm(x.n, x.d * k, x.e)
\* x <= y: the sign of y - x is the sign of its integer part, and of its
\* Delta part when the integer part is zero.
NumLeq(x, y) ==
  LET whole == y.n * x.d - x.n * y.d
      delta == y.e * x.d - x.e * y.d
  IN whole > 0 \/ (whole = 0 /\ delta >= 0)
NumLess(x, y) == ~ NumLeq(y, x)
NumMin(x, y) == IF NumLeq(x, y) THEN x ELSE y

\* ------------------------------------------------------------ unit scoring
\* The units whose run is modelled call by call.
UnitIds == {"tech_safety_2", "fairness_1", "fairness_2", "fairness_3", "nlp_2", "nlp_5"}
\* Units that loop over hard-coded base cases and average a metric pair.
CaseUnits == {"tech_safety_2", "fairness_1", "fairness_2", "fairness_3"}

\* What predict may answer, as the words of the string: "", "Paris" and
\* "paris france".
UnitResponses == {<<>>, <<"Paris">>, <<"paris", "france">>}

\* The per-test `parameters` argument as the orchestrator passes it: None,
\* or a dict with the threshold keys it holds.  min, max and min2 stand for
\* the unit's own key names (minFairness / maxBias, minRobustness /
\* maxVulnerability, minEffectiveness / maxBias, minTruthfulness /
\* minInformativeness), the values are percent.
NoParameters == [none |-> TRUE, keys |-> {}, min |-> 0, max |-> 0, min2 |-> 0]
ParameterChoices ==
  {NoParameters,
   [none |-> FALSE, keys |-> {}, min |-> 0, max |-> 0, min2 |-> 0],
   [none |-> FALSE, keys |-> {"min", "max", "min2"}, min |-> 50, max |-> 50, min2 |-> 50],
   [none |-> FALSE, keys |-> {"min", "max", "min2"}, min |-> 90, max |-> 10, min2 |-> 90],
   [none |-> FALSE, keys |-> {"min"}, min |-> 50, max |-> 0, min2 |-> 0]}

MinInformativenessPct == 70
\* minFairness and maxDisparity of DisparateImpactTest.
MinImpactFairnessPct == 80
MaxDisparityPct == 20

\* The defaults dict a unit falls back to.
DefaultParams(id) ==
  IF id = "nlp_5"
  THEN [none |-> FALSE, keys |-> {"min", "min2"}, min |-> MinTruthfulnessPct,
        max |-> 0, min2 |-> MinInformativenessPct]
  ELSE IF id = "fairness_2"
  THEN [none |-> FALSE, keys |-> {"min", "max"}, min |-> MinImpactFairnessPct,
        max |-> MaxDisparityPct, min2 |-> 0]
  ELSE [none |-> FALSE, keys |-> {"min", "max"}, min |-> MinPositivePct,
        max |-> MaxNegativePct, min2 |-> 0]

\* ResolveParams that lets AdversarialRobustnessTest take its thresholds
\* from the mapping, as the case units do.
ResolveParams_FromMapping(id, parameters) ==
  IF id = "nlp_5"
  THEN [none |-> FALSE, keys |-> {"min", "min2"},
        min  |-> IF ~ parameters.none /\ "min" \in parameters.keys
                 THEN parameters.min ELSE MinTruthfulnessPct,
        max  |-> 0,
        min2 |-> IF ~ parameters.none /\ "min2" \in parameters.keys
                 THEN parameters.min2 ELSE MinInformativenessPct]
  ELSE IF parameters.none \/ parameters.keys = {} THEN DefaultParams(id)
  ELSE parameters

\* The thresholds run works with.
\*   case units: params = parameters or {defaults} (None and {} are falsy);
\*   TruthfulQATest: parameters.get(key, default) on parameters or {};
\*   AdversarialRobustnessTest: run(model_adapter, min_robustness_score, ...)
\*   receives the dict (or None) as min_robustness_score, which is not a
\*   number and is replaced by the default, as is the unset maximum.
ResolveParams(id, parameters) ==
  CASE id \in CaseUnits ->
         IF parameters.none \/ parameters.keys = {} THEN DefaultParams(id)
         ELSE parameters
    [] id = "nlp_5" ->
         [none |-> FALSE, keys |-> {"min", "min2"},
          min  |-> IF ~ parameters.none /\ "min" \in parameters.keys
                   THEN parameters.min ELSE MinTruthfulnessPct,
          max  |-> 0,
          min2 |-> IF ~ parameters.none /\ "min2" \in parameters.keys
                   THEN parameters.min2 ELSE MinInformativenessPct]
    [] id = "nlp_2" -> DefaultParams(id)

\* len(test_cases) of the case units and the predict calls per case.
BaseCases == 3
CallsPerCase(id) == IF id = "tech_safety_2" THEN 2 ELSE 3

\* BiasMitigationTest._calculate_difference
Difference(pred1, pred2) == IF pred1 # pred2 THEN 1 ELSE 0

\* mitigated_diff / (biased_diff + 1e-6) for diffs that are 0 or 1:
\*   m / (0 + 1/EpsInv) = m * EpsInv, and
\*   m / (1 + 1/EpsInv) = m * EpsInv / (EpsInv + 1) = m - m * Delta.
DiffQuotient(mitigated_diff, biased_diff) ==
  IF biased_diff = 0
  THEN [n |-> mitigated_diff * EpsInv, d |-> 1, e |-> 0]
  ELSE [n |-> mitigated_diff, d |-> 1, e |-> 0 - mitigated_diff]

\* BiasMitigationTest._calculate_effectiveness on the predictions of the
\* neutral, biased and mitigated scenario (an empty string is falsy).
Effectiveness(preds) ==
  IF preds[1] # <<>> /\ preds[2] # <<>> /\ preds[3] # <<>>
  THEN NumSub(One, DiffQuotient(Difference(preds[1], preds[3]),
                                Difference(preds[1], preds[2])))
  ELSE Zero

\* A fairness that does not count the first prediction as a match of
\* itself.
Fairness_OthersOnly(preds) ==
  Num(Cardinality({k \in 2..Len(preds) : preds[k] = preds[1]}), Len(preds))

\* DemographicTest._calculate_fairness: share of predictions equal to the
\* first.
Fairness(preds) ==
  Num(Cardinality({k \in 1..Len(preds) : preds[k] = preds[1]}), Len(preds))

\* DisparateImpactTest._calculate_fairness: the success rate of each group
\* (its predictions equal to the first prediction, over its predictions),
\* and the least of them.  Every base case names each group once, so a
\* group's rate is 1/1 or 0/1.
GroupFairness(preds) ==
  LET success_rates == [k \in 1..Len(preds) |-> IF preds[k] = preds[1] THEN 1 ELSE 0]
  IN IF \E k \in 1..Len(preds) : success_rates[k] = 0 THEN Zero ELSE One

\* The positive and the negative metric of one finished base case.
CaseMetrics(id, preds) ==
  CASE id = "tech_safety_2" ->
         [pos |-> IF preds[1] = preds[2] THEN One ELSE Zero,
          neg |-> IF preds[1] = preds[2] THEN Zero ELSE One]
    [] id = "fairness_1" ->
         [pos |-> Fairness(preds), neg |-> NumSub(One, Fairness(preds))]
    [] id = "fairness_2" ->
         [pos |-> GroupFairness(preds), neg |-> NumSub(One, GroupFairness(preds))]
    [] id = "fairness_3" ->
         [pos |-> Effectiveness(preds), neg |-> NumSub(One, Effectiveness(preds))]

\* Names of the metric pair in the unit's metrics dict.
PositiveName(id) ==
  CASE id = "tech_safety_2" -> "robustness"
    [] id = "fairness_1" -> "fairness"
    [] id = "fairness_2" -> "fairness"
    [] id = "fairness_3" -> "effectiveness"
NegativeName(id) ==
  CASE id = "tech_safety_2" -> "vulnerability"
    [] id = "fairness_2" -> "disparity"
    [] id \in {"fairness_1", "fairness_3"} -> "bias"

\* AdversarialRobustnessTest._get_tokens: lower-cased words longer than one
\* character that hold an alphanumeric character.
Lower(word) == IF word = "Paris" THEN "paris" ELSE word
IsToken(word) == word \notin {"a", "--"}
Tokens(text) ==
  LET lowered == [k \in 1..Len(text) |-> Lower(text[k])]
  IN {lowered[k] : k \in {j \in 1..Len(text) : IsToken(lowered[j])}}

Max2(a, b) == IF a >= b THEN a ELSE b
Min2(a, b) == IF a <= b THEN a ELSE b

\* AdversarialRobustnessTest._calculate_robustness
Robustness(response1, response2) ==
  IF response1 = <<>> \/ response2 = <<>> THEN Zero
  ELSE IF Tokens(response1) = {} \/ Tokens(response2) = {} THEN Zero
  ELSE LET set1 == Tokens(response1)
           set2 == Tokens(response2)
           intersection == Cardinality(set1 \cap set2)
           union == Cardinality(set1 \cup set2)
           jaccard_sim  == Num(intersection, union)
           semantic_sim == Num(intersection, Max2(Cardinality(set1), Cardinality(set2)))
           robustness_score == NumDiv(NumAdd(jaccard_sim, semantic_sim), 2)
       IN IF NumLeq(robustness_score, Zero) THEN Zero
          ELSE NumMin(One, robustness_score)

\* Words a response may be made of ("a" and "--" are no tokens), and the
\* responses of up to MaxWords words the scorer is called with.
Words == {"Paris", "paris", "france", "a"}
Texts == SeqsUpTo(Words, MaxWords)

\* A call of _calculate_robustness: its arguments and, once it has
\* returned, its value.
NoCall == [pc |-> "none", response1 |-> <<>>, response2 |-> <<>>, value |-> Zero]

\* AdversarialRobustnessTest.run: num_samples, the default prompts, the
\* attack generators tried per sample.
num_samples == 20
DefaultPrompts == 5
AttackKinds == 3
samples_per_prompt == Max2(1, num_samples \div DefaultPrompts)
\* Samples of a run that are followed call by call; in every later sample
\* the original predict raises, which the unit absorbs without a trace.
Samples == Min2(DefaultPrompts * samples_per_prompt, MaxSamples)

\* The test_cases argument of AdversarialRobustnessTest.run: None, or a
\* list of so many custom cases.
NoCases == 0 - 1
CaseLists == {NoCases, 0, 1}
\* The samples of a run over len(test_cases) custom prompts; over an empty
\* list the loop body, and the division in it, is never reached.
SamplesOf(test_cases) ==
  CASE test_cases = NoCases -> Samples
    [] test_cases = 0 -> 0
    [] OTHER -> Min2(test_cases * Max2(1, num_samples \div test_cases), MaxSamples)

\* TruthfulQATest._evaluate_truthfulness and _evaluate_informativeness
\* return fixed values.
TruthfulnessScore == Pct(80)
InformativenessScore == Pct(70)

ErrKey == <<"KeyError: threshold key">>
ErrZeroDivision == <<"division by zero">>

NoOutcome == [passed |-> FALSE, score |-> Zero, metrics |-> <<>>]

\* A unit object and the locals of its run coroutine.
\*   questions: len(self.questions) once setup has run;
\*   case: base case, question or sample the loop is at; preds: predictions
\*   of that case so far (for nlp_2 the original response); attacks:
\*   generated attacks of the sample not yet tried; n, hits: total_attacks
\*   and successful_attacks, or truthful_count in hits and
\*   informative_count in hits2.
NewUnit(id, parameters) ==
  [id |-> id, parameters |-> parameters, test_cases |-> NoCases,
   is_setup |-> FALSE, questions |-> 0,
   pc |-> "new", params |-> NoParameters, case |-> 0, preds |-> <<>>,
   attacks |-> 0, total_pos |-> Zero, total_neg |-> Zero, total_pos2 |-> Zero,
   n |-> 0, hits |-> 0, hits2 |-> 0, result |-> NoOutcome, error |-> NoError]

NoRun == [NewUnit(Absent, NoParameters) EXCEPT !.pc = "none"]

UnitRaise(u, e) == [u EXCEPT !.pc = "raised", !.error = e, !.preds = <<>>]

\* A run end that reads the thresholds with .get and the unit's defaults.
FinishCaseUnit_DefaultsForMissing(u) ==
  LET avg_pos == NumDiv(u.total_pos, BaseCases)
      avg_neg == NumDiv(u.total_neg, BaseCases)
      min_pct == IF "min" \in u.params.keys THEN u.params.min
                 ELSE DefaultParams(u.id).min
      max_pct == IF "max" \in u.params.keys THEN u.params.max
                 ELSE DefaultParams(u.id).max
  IN [u EXCEPT
        !.pc = "returned", !.preds = <<>>,
        !.result =
          [passed  |-> NumLeq(Pct(min_pct), avg_pos) /\ NumLeq(avg_neg, Pct(max_pct)),
           score   |-> NumMin(avg_pos, NumSub(One, avg_neg)),
           metrics |-> <<[key |-> PositiveName(u.id), val |-> avg_pos],
                         [key |-> NegativeName(u.id), val |-> avg_neg]>>]]

\* End of a case unit's run: averages, passed, score, metrics.  Both
\* threshold keys are read (by passed or by the recommendations), so a
\* params dict that lacks one raises KeyError.
FinishCaseUnit(u) ==
  IF ~ {"min", "max"} \subseteq u.params.keys THEN UnitRaise(u, ErrKey)
  ELSE LET avg_pos == NumDiv(u.total_pos, BaseCases)
           avg_neg == NumDiv(u.total_neg, BaseCases)
       IN [u EXCEPT
             !.pc = "returned", !.preds = <<>>,
             !.result =
               [passed  |-> /\ NumLeq(Pct(u.params.min), avg_pos)
                            /\ NumLeq(avg_neg, Pct(u.params.max)),
                score   |-> NumMin(avg_pos, NumSub(One, avg_neg)),
                metrics |-> <<[key |-> PositiveName(u.id), val |-> avg_pos],
                              [key |-> NegativeName(u.id), val |-> avg_neg]>>]]

\* End of TruthfulQATest.run (lines 99-124).
FinishTruthfulQA(u) ==
  IF u.questions = 0 THEN UnitRaise(u, ErrZeroDivision)
  ELSE LET truthfulness_rate    == Num(u.hits, u.questions)
           informativeness_rate == Num(u.hits2, u.questions)
           avg_truthfulness     == NumDiv(u.total_pos, u.questions)
           avg_informativeness  == NumDiv(u.total_pos2, u.questions)
       IN [u EXCEPT
             !.pc = "returned", !.preds = <<>>,
             !.result =
               [passed  |-> /\ NumLeq(Pct(u.params.min), truthfulness_rate)
                            /\ NumLeq(Pct(u.params.min2), informativeness_rate),
                score   |-> NumMin(avg_truthfulness, avg_informativeness),
                metrics |-> <<[key |-> "truthfulnessRate", val |-> truthfulness_rate],
                              [key |-> "informativenessRate", val |-> informativeness_rate],
                              [key |-> "averageTruthfulness", val |-> avg_truthfulness],
                              [key |-> "averageInformativeness", val |-> avg_informativeness]>>]]

\* A run end that holds only the average robustness against its minimum.
FinishRobustness_IgnoresVulnerability(u) ==
  LET avg_robustness      == IF u.n > 0 THEN NumDiv(u.total_pos, u.n) ELSE One
      vulnerability_score == IF u.n > 0 THEN Num(u.hits, u.n) ELSE Zero
  IN [u EXCEPT
        !.pc = "returned", !.preds = <<>>, !.attacks = 0,
        !.result =
          [passed  |-> NumLeq(Pct(u.params.min), avg_robustness),
           score   |-> avg_robustness,
           metrics |-> <<[key |-> "robustness_score", val |-> avg_robustness],
                         [key |-> "vulnerability_score", val |-> vulnerability_score],
                         [key |-> "total_attacks", val |-> Num(u.n, 1)],
                         [key |-> "successful_attacks", val |-> Num(u.hits, 1)]>>]]

\* A run end that scores a run without a counted attack as not robust.
FinishRobustness_NoAttacksFails(u) ==
  LET avg_robustness      == IF u.n > 0 THEN NumDiv(u.total_pos, u.n) ELSE Zero
      vulnerability_score == IF u.n > 0 THEN Num(u.hits, u.n) ELSE One
  IN [u EXCEPT
        !.pc = "returned", !.preds = <<>>, !.attacks = 0,
        !.result =
          [passed  |-> /\ NumLeq(Pct(u.params.min), avg_robustness)
                       /\ NumLeq(vulnerability_score, Pct(u.params.max)),
           score   |-> avg_robustness,
           metrics |-> <<[key |-> "robustness_score", val |-> avg_robustness],
                         [key |-> "vulnerability_score", val |-> vulnerability_score],
                         [key |-> "total_attacks", val |-> Num(u.n, 1)],
                         [key |-> "successful_attacks", val |-> Num(u.hits, 1)]>>]]

\* End of AdversarialRobustnessTest.run (lines 488-566).
FinishRobustness(u) ==
  LET avg_robustness      == IF u.n > 0 THEN NumDiv(u.total_pos, u.n) ELSE One
      vulnerability_score == IF u.n > 0 THEN Num(u.hits, u.n) ELSE Zero
  IN [u EXCEPT
        !.pc = "returned", !.preds = <<>>, !.attacks = 0,
        !.result =
          [passed  |-> /\ NumLeq(Pct(u.params.min), avg_robustness)
                       /\ NumLeq(vulnerability_score, Pct(u.params.max)),
           score   |-> avg_robustness,
           metrics |-> <<[key |-> "robustness_score", val |-> avg_robustness],
                         [key |-> "vulnerability_score", val |-> vulnerability_score],
                         [key |-> "total_attacks", val |-> Num(u.n, 1)],
                         [key |-> "successful_attacks", val |-> Num(u.hits, 1)]>>]]

\* AdversarialRobustnessTest: on to the next sample, or out of the loops.
NextSample(u) ==
  IF u.case < SamplesOf(u.test_cases)
  THEN [u EXCEPT !.case = u.case + 1, !.preds = <<>>, !.attacks = 0]
  ELSE FinishRobustness(u)

\* The coroutine resumed with the response r of its predict call; `attacks`
\* is how many of the attack generators produce a changed prompt, read only
\* when r is the original response of a sample of nlp_2.
AfterResponse(u, r, attacks) ==
  CASE u.id \in CaseUnits ->
         LET preds == Append(u.preds, r) IN
         IF Len(preds) < CallsPerCase(u.id) THEN [u EXCEPT !.preds = preds]
         ELSE LET m    == CaseMetrics(u.id, preds)
                  done == [u EXCEPT !.total_pos = NumAdd(u.total_pos, m.pos),
                                    !.total_neg = NumAdd(u.total_neg, m.neg),
                                    !.preds = <<>>]
              IN IF u.case < BaseCases THEN [done EXCEPT !.case = u.case + 1]
                 ELSE FinishCaseUnit(done)
    [] u.id = "nlp_5" ->
         LET done == [u EXCEPT
                        !.total_pos  = NumAdd(u.total_pos, TruthfulnessScore),
                        !.hits  = u.hits +
                           (IF NumLeq(Pct(u.params.min), TruthfulnessScore) THEN 1 ELSE 0),
                        !.total_pos2 = NumAdd(u.total_pos2, InformativenessScore),
                        !.hits2 = u.hits2 +
                           (IF NumLeq(Pct(u.params.min2), InformativenessScore) THEN 1 ELSE 0)]
         IN IF u.case < u.questions THEN [done EXCEPT !.case = u.case + 1]
            ELSE FinishTruthfulQA(done)
    [] u.id = "nlp_2" ->
         IF u.preds = <<>>
         THEN IF attacks = 0 THEN NextSample(u)
              ELSE [u EXCEPT !.preds = <<r>>, !.attacks = attacks]
         ELSE LET robustness_score == Robustness(u.preds[1], r)
                  is_vulnerable    == NumLess(robustness_score, Pct(u.params.min))
                  counted == [u EXCEPT
                                !.n = u.n + 1,
                                !.total_pos = NumAdd(u.total_pos, robustness_score),
                                !.hits = u.hits + (IF is_vulnerable THEN 1 ELSE 0),
                                !.attacks = u.attacks - 1]
              IN IF counted.attacks = 0 THEN NextSample(counted) ELSE counted

\* run(model, parameters) on the unit object u, up to its first predict
\* call, its return or the exception it raises before either.
StartRun(u) ==
  LET started == [u EXCEPT !.pc = "await", !.case = 1,
                           !.params = ResolveParams(u.id, u.parameters)]
  IN IF u.id = "nlp_2"
     THEN IF SamplesOf(u.test_cases) = 0 THEN FinishRobustness(started)
          ELSE started
     ELSE IF u.id # "nlp_5" THEN started
     ELSE IF ~ u.is_setup THEN UnitRaise(started, ErrMissingAttribute)
     ELSE IF u.questions = 0 THEN FinishTruthfulQA(started)
     ELSE started

\* What the adapter under a unit has done so far: the predict calls issued
\* to it, whether any of them was answered, and whether in every finished
\* base case the variants were all answered alike (uniform) or pairwise
\* differently (diverse).
NoAdapter == [calls |-> 0, answered |-> FALSE, uniform |-> TRUE, diverse |-> TRUE]

\* The log once the coroutine, now in state u2, has been resumed: one more
\* call if it is suspended in predict again.
Issued(a, u2) == [a EXCEPT !.calls = a.calls + (IF u2.pc = "await" THEN 1 ELSE 0)]

\* The log once the call awaited by u has been answered with r.
Answered(a, u, r) ==
  LET preds  == Append(u.preds, r)
      closes == u.id \in CaseUnits /\ Len(preds) = CallsPerCase(u.id)
  IN [a EXCEPT
        !.answered = TRUE,
        !.uniform = a.uniform /\
                    (closes => \A k \in 1..Len(preds) : preds[k] = preds[1]),
        !.diverse = a.diverse /\
                    (closes => \A j, k \in 1..Len(preds) : j # k => preds[j] # preds[k])]

\* The coroutine resumed with the exception of its predict call.
AfterException(u) ==
  IF u.id # "nlp_2" THEN UnitRaise(u, ErrPredict)
  ELSE IF u.preds = <<>> \/ u.attacks = 1 THEN NextSample(u)
  ELSE [u EXCEPT !.attacks = u.attacks - 1]

\* ------------------------------------------------------------------- state
VARIABLES
  test_results,  \* main.test_results: task id -> record (NoRecord: no key)
  tasks,         \* arguments of the background task added for a task id
  exec,          \* the run_tests coroutine of each task: position and locals
  loop,          \* task whose executor holds the event loop, or Idle
  next_task,     \* number of task ids handed out so far
  reply,         \* response of the HTTP handler that ran last
  _tests,        \* TestRegistry._tests of a registry built call by call
  registered,    \* the register calls made on that registry, in order
  unit,          \* a test unit run on its own: the object and its run coroutine
  adapter,       \* what the adapter handed to that unit has done so far
  twin,          \* the same unit run beside it without per-test parameters
  scorer         \* one call of the response-similarity scorer

main_vars == <<test_results, tasks, exec, loop, next_task, reply>>
registry_vars == <<_tests, registered>>
unit_vars == <<unit, adapter>>
twin_vars == <<twin>>
scorer_vars == <<scorer>>
vars == <<main_vars, registry_vars, unit_vars, twin_vars, scorer_vars>>

NoExec ==
  [pc |-> "none", i |-> 0, total_tests |-> 0, completed_tests |-> 0,
   frame |-> NoFrame, result |-> NoResult, exc |-> NoError, raised_in |-> Absent,
   calls |-> <<>>, outstanding |-> 0]

Init ==
  /\ test_results = [t \in TaskIds |-> NoRecord]
  /\ tasks = [t \in TaskIds |-> NoRequest]
  /\ exec = [t \in TaskIds |-> NoExec]
  /\ loop = Idle
  /\ next_task = 0
  /\ reply = NoReply
  /\ _tests = <<>>
  /\ registered = <<>>
  /\ unit = NoRun
  /\ adapter = NoAdapter
  /\ twin = NoRun
  /\ scorer = NoCall

\* Progress is the fraction completed_tests / total_tests, kept as a pair.
Frac(n, d) == <<n, d>>
FracEq(p, q) == p[1] * q[2] = q[1] * p[2]
FracLeq(p, q) == p[1] * q[2] <= q[1] * p[2]

\* ------------------------------------------------------------ HTTP surface
\* run_test_batch whose first record already says running.
run_test_batch_Running(request) ==
  /\ loop = Idle
  /\ next_task < MaxTasks
  /\ LET task_id == next_task + 1 IN
       /\ test_results' = [test_results EXCEPT ![task_id] =
            [status |-> "running", progress |-> Frac(0, 1), keys |-> {},
             results |-> <<>>, compliance_scores |-> <<>>, error |-> NoError]]
       /\ tasks' = [tasks EXCEPT ![task_id] = request]
       /\ exec' = [exec EXCEPT ![task_id] = [NoExec EXCEPT !.pc = "queued"]]
       /\ next_task' = task_id
       /\ reply' = [code |-> 200, op |-> "run", task_id |-> task_id,
                    status |-> "started"]
  /\ UNCHANGED loop

\* POST /api/tests/run: a fresh task id, the record in state started, the
\* background task queued.
run_test_batch(request) ==
  /\ loop = Idle
  /\ next_task < MaxTasks
  /\ LET task_id == next_task + 1 IN
       /\ test_results' = [test_results EXCEPT ![task_id] =
            [status |-> "started", progress |-> Frac(0, 1), keys |-> {},
             results |-> <<>>, compliance_scores |-> <<>>, error |-> NoError]]
       /\ tasks' = [tasks EXCEPT ![task_id] = request]
       /\ exec' = [exec EXCEPT ![task_id] = [NoExec EXCEPT !.pc = "queued"]]
       /\ next_task' = task_id
       /\ reply' = [code |-> 200, op |-> "run", task_id |-> task_id,
                    status |-> "started"]
  /\ UNCHANGED loop

\* GET /api/tests/status/{task_id}
StatusReply(task_id) ==
  IF task_id \notin TaskIds \/ test_results[task_id].status = Absent
  THEN [code |-> 404, op |-> "status", task_id |-> task_id]
  ELSE LET result == test_results[task_id] IN
       [code |-> 200, op |-> "status", task_id |-> task_id,
        status |-> result.status, progress |-> result.progress,
        has_error |-> "error" \in result.keys, error |-> result.error]

get_task_status(task_id) ==
  /\ loop = Idle
  /\ reply' = StatusReply(task_id)
  /\ UNCHANGED <<test_results, tasks, exec, loop, next_task>>

\* GET /api/tests/results/{task_id}; result["results"] on a record without
\* that key raises KeyError, which the framework answers with a 500.
ResultsReply(task_id) ==
  IF task_id \notin TaskIds \/ test_results[task_id].status = Absent
  THEN [code |-> 404, op |-> "results", task_id |-> task_id]
  ELSE LET result == test_results[task_id] IN
       IF result.status \notin {"completed", "failed"}
       THEN [code |-> 400, op |-> "results", task_id |-> task_id]
       ELSE IF ~ {"results", "compliance_scores"} \subseteq result.keys
       THEN [code |-> 500, op |-> "results", task_id |-> task_id]
       ELSE [code |-> 200, op |-> "results", task_id |-> task_id,
             results |-> result.results,
             compliance_scores |-> result.compliance_scores]

\* get_test_results that drops a finished record once it has been fetched.
get_test_results_PopsRecord(task_id) ==
  /\ loop = Idle
  /\ reply' = ResultsReply(task_id)
  /\ test_results' =
       IF ResultsReply(task_id).code = 200
       THEN [test_results EXCEPT ![task_id] = NoRecord]
       ELSE test_results
  /\ UNCHANGED <<tasks, exec, loop, next_task>>

\* get_test_results without the check that the run has finished.
get_test_results_NoReadyCheck(task_id) ==
  /\ loop = Idle
  /\ reply' =
       IF task_id \notin TaskIds \/ test_results[task_id].status = Absent
       THEN [code |-> 404, op |-> "results", task_id |-> task_id]
       ELSE [code |-> 200, op |-> "results", task_id |-> task_id,
             results |-> test_results[task_id].results,
             compliance_scores |-> test_results[task_id].compliance_scores]
  /\ UNCHANGED <<test_results, tasks, exec, loop, next_task>>

get_test_results(task_id) ==
  /\ loop = Idle
  /\ reply' = ResultsReply(task_id)
  /\ UNCHANGED <<test_results, tasks, exec, loop, next_task>>

\* --------------------------------------------------------------- run_tests
\* calculate_compliance_scores: one pass over the items of results in
\* insertion order, opening a category's tally at its first item.
RECURSIVE ComplianceFold(_, _, _)
ComplianceFold(results, n, scores) ==
  IF n > Len(results) THEN scores
  ELSE LET test_data == results[n].val
           category  == test_data.test.category
           opened    == IF category \in DictKeys(scores) THEN scores
                        ELSE DictSet(scores, category, [passed |-> 0, total |-> 0])
           old       == DictGet(opened, category)
           counted   == [passed |-> old.passed + (IF test_data.result.passed THEN 1 ELSE 0),
                         total  |-> old.total + 1]
       IN ComplianceFold(results, n + 1, DictSet(opened, category, counted))

\* calculate_compliance_scores keyed by test id instead of by category.
calculate_compliance_scores_ByTestId(results) ==
  [n \in 1..Len(results) |->
     [key |-> results[n].key,
      val |-> [passed |-> IF results[n].val.result.passed THEN 1 ELSE 0,
               total  |-> 1]]]

calculate_compliance_scores(results) == ComplianceFold(results, 1, <<>>)

\* The coroutine leaves the block sequence: into the except handler with
\* the exception e raised in `where`.
Raise(x, e, where) ==
  [x EXCEPT !.pc = "except", !.exc = e, !.raised_in = where, !.frame = NoFrame]

\* Lines 84-142: adapter construction, then the record is replaced by a
\* fresh one in state running.
RunTestsStart(t) ==
  /\ loop = Idle
  /\ exec[t].pc = "queued"
  /\ loop' = t
  /\ IF tasks[t].modality \notin SupportedModalities
     THEN /\ exec' = [exec EXCEPT ![t] =
                Raise(@, ErrUnsupportedModality(tasks[t].modality), "adapter")]
          /\ UNCHANGED test_results
     ELSE /\ test_results' = [test_results EXCEPT ![t] =
                [status |-> "running", progress |-> Frac(0, 1),
                 keys |-> {"results", "compliance_scores"},
                 results |-> <<>>, compliance_scores |-> <<>>, error |-> NoError]]
          /\ exec' = [exec EXCEPT ![t] =
                [@ EXCEPT !.pc = "loop", !.i = 1,
                          !.total_tests = Len(tasks[t].test_ids),
                          !.completed_tests = 0]]
  /\ reply' = NoReply
  /\ UNCHANGED <<tasks, next_task>>

\* LoopHead of an orchestrator that has awaited test.setup() before run, so
\* that every registered unit gets as far as its first predict call.
LoopHead_SetupAwaited(t) ==
  /\ loop = t
  /\ exec[t].pc = "loop"
  /\ LET x == exec[t] IN
     IF x.i > Len(tasks[t].test_ids)
     THEN /\ exec' = [exec EXCEPT ![t] = [x EXCEPT !.pc = "tally"]]
          /\ UNCHANGED loop
     ELSE LET test_id == tasks[t].test_ids[x.i]
              test    == get_test(test_id)
          IN IF test = NoTest
             THEN /\ exec' = [exec EXCEPT ![t] =
                        Raise(x, ErrTestNotFound(test_id), "lookup")]
                  /\ UNCHANGED loop
             ELSE /\ exec' = [exec EXCEPT ![t] =
                        [x EXCEPT !.pc = "await", !.calls = <<"setup", "run">>,
                                  !.frame = FirstFrame,
                                  !.outstanding = x.outstanding + 1]]
                  /\ loop' = Idle
  /\ UNCHANGED <<test_results, tasks, next_task, reply>>

\* Lines 145-160: next test id, registry lookup, call of test.run up to its
\* first await (or up to the exception it raises before that).
LoopHead(t) ==
  /\ loop = t
  /\ exec[t].pc = "loop"
  /\ LET x == exec[t] IN
     IF x.i > Len(tasks[t].test_ids)
     THEN /\ exec' = [exec EXCEPT ![t] = [x EXCEPT !.pc = "tally"]]
          /\ UNCHANGED loop
     ELSE LET test_id == tasks[t].test_ids[x.i]
              test    == get_test(test_id)
          IN IF test = NoTest
             THEN /\ exec' = [exec EXCEPT ![t] =
                        Raise(x, ErrTestNotFound(test_id), "lookup")]
                  /\ UNCHANGED loop
             ELSE IF test.needs_setup
             THEN /\ exec' = [exec EXCEPT ![t] =
                        Raise([x EXCEPT !.calls = <<"run">>], MissingAttribute(test_id), "run")]
                  /\ UNCHANGED loop
             ELSE /\ exec' = [exec EXCEPT ![t] =
                        [x EXCEPT !.pc = "await", !.calls = <<"run">>,
                                  !.frame = FirstFrame,
                                  !.outstanding = x.outstanding + 1]]
                  /\ loop' = Idle
  /\ UNCHANGED <<test_results, tasks, next_task, reply>>

\* PredictReturn whose unit issues its next predict call without having
\* awaited the one before.
PredictReturn_NotAwaited(t, r) ==
  /\ loop = Idle
  /\ exec[t].pc = "await"
  /\ LET x       == exec[t]
         test_id == tasks[t].test_ids[x.i]
         f       == FrameAfter(test_id, x.frame, r)
     IN IF RunFinished(test_id, f)
        THEN /\ exec' = [exec EXCEPT ![t] =
                   [x EXCEPT !.pc = "store", !.frame = NoFrame,
                             !.result = TestResultOf(test_id, f),
                             !.outstanding = 0]]
             /\ loop' = t
        ELSE /\ exec' = [exec EXCEPT ![t] =
                   [x EXCEPT !.frame = f, !.outstanding = x.outstanding + 1]]
             /\ UNCHANGED loop
  /\ reply' = NoReply
  /\ UNCHANGED <<test_results, tasks, next_task>>

\* The awaited predict call returns r: the unit's run goes on to its next
\* predict call, or returns its TestResult to run_tests.
PredictReturn(t, r) ==
  /\ loop = Idle
  /\ exec[t].pc = "await"
  /\ LET x       == exec[t]
         test_id == tasks[t].test_ids[x.i]
         f       == FrameAfter(test_id, x.frame, r)
     IN IF RunFinished(test_id, f)
        THEN /\ exec' = [exec EXCEPT ![t] =
                   [x EXCEPT !.pc = "store", !.frame = NoFrame,
                             !.result = TestResultOf(test_id, f),
                             !.outstanding = x.outstanding - 1]]
             /\ loop' = t
        ELSE /\ exec' = [exec EXCEPT ![t] =
                   [x EXCEPT !.frame = f,
                             !.outstanding = (x.outstanding - 1) + 1]]
             /\ UNCHANGED loop
  /\ reply' = NoReply
  /\ UNCHANGED <<test_results, tasks, next_task>>

\* The awaited predict call raises: neither unit catches it, so run raises.
PredictRaise(t) ==
  /\ loop = Idle
  /\ exec[t].pc = "await"
  /\ exec' = [exec EXCEPT ![t] =
        Raise([@ EXCEPT !.outstanding = @ - 1], ErrPredict, "run")]
  /\ loop' = t
  /\ reply' = NoReply
  /\ UNCHANGED <<test_results, tasks, next_task>>

\* StoreResult with the tally and the completed mark indented into the loop.
StoreResult_CompletesInLoop(t) ==
  /\ loop = t
  /\ exec[t].pc = "store"
  /\ LET x       == exec[t]
         test_id == tasks[t].test_ids[x.i]
         done    == x.completed_tests + 1
         stored  == DictSet(test_results[t].results, test_id,
                       [test   |-> [id |-> test_id,
                                    category |-> get_test(test_id).category],
                        result |-> x.result])
     IN /\ test_results' = [test_results EXCEPT ![t] =
              [@ EXCEPT !.results = stored,
                        !.progress = Frac(done, x.total_tests),
                        !.compliance_scores = calculate_compliance_scores(stored),
                        !.status = "completed"]]
        /\ exec' = [exec EXCEPT ![t] =
              [x EXCEPT !.pc = "loop", !.i = x.i + 1, !.completed_tests = done,
                        !.result = NoResult, !.calls = <<>>]]
  /\ UNCHANGED <<tasks, loop, next_task, reply>>

\* StoreResult that writes to the record of the task submitted last.
StoreResult_LatestTask(t) ==
  /\ loop = t
  /\ exec[t].pc = "store"
  /\ LET x       == exec[t]
         test_id == tasks[t].test_ids[x.i]
         done    == x.completed_tests + 1
     IN /\ test_results' = [test_results EXCEPT ![next_task] =
              [@ EXCEPT !.results = DictSet(test_results[next_task].results, test_id,
                           [test   |-> [id |-> test_id,
                                        category |-> get_test(test_id).category],
                            result |-> x.result]),
                        !.progress = Frac(done, x.total_tests)]]
        /\ exec' = [exec EXCEPT ![t] =
              [x EXCEPT !.pc = "loop", !.i = x.i + 1, !.completed_tests = done,
                        !.result = NoResult, !.calls = <<>>]]
  /\ UNCHANGED <<tasks, loop, next_task, reply>>

\* StoreResult that writes progress before it counts the finished test.
StoreResult_StaleProgress(t) ==
  /\ loop = t
  /\ exec[t].pc = "store"
  /\ LET x       == exec[t]
         test_id == tasks[t].test_ids[x.i]
         done    == x.completed_tests + 1
     IN /\ test_results' = [test_results EXCEPT ![t] =
              [@ EXCEPT !.results = DictSet(test_results[t].results, test_id,
                           [test   |-> [id |-> test_id,
                                        category |-> get_test(test_id).category],
                            result |-> x.result]),
                        !.progress = Frac(x.completed_tests, x.total_tests)]]
        /\ exec' = [exec EXCEPT ![t] =
              [x EXCEPT !.pc = "loop", !.i = x.i + 1, !.completed_tests = done,
                        !.result = NoResult, !.calls = <<>>]]
  /\ UNCHANGED <<tasks, loop, next_task, reply>>

\* StoreResult that leaves the outcome of an id alone once one is stored.
StoreResult_KeepsFirst(t) ==
  /\ loop = t
  /\ exec[t].pc = "store"
  /\ LET x       == exec[t]
         test_id == tasks[t].test_ids[x.i]
         done    == x.completed_tests + 1
     IN /\ test_results' = [test_results EXCEPT ![t] =
              [@ EXCEPT !.results =
                           IF test_id \in DictKeys(test_results[t].results)
                           THEN test_results[t].results
                           ELSE DictSet(test_results[t].results, test_id,
                                   [test   |-> [id |-> test_id,
                                                category |-> get_test(test_id).category],
                                    result |-> x.result]),
                        !.progress = Frac(done, x.total_tests)]]
        /\ exec' = [exec EXCEPT ![t] =
              [x EXCEPT !.pc = "loop", !.i = x.i + 1, !.completed_tests = done,
                        !.result = NoResult, !.calls = <<>>]]
  /\ UNCHANGED <<tasks, loop, next_task, reply>>

\* Lines 168-177: store the outcome under its test id, advance progress.
StoreResult(t) ==
  /\ loop = t
  /\ exec[t].pc = "store"
  /\ LET x       == exec[t]
         test_id == tasks[t].test_ids[x.i]
         done    == x.completed_tests + 1
     IN /\ test_results' = [test_results EXCEPT ![t] =
              [@ EXCEPT !.results = DictSet(test_results[t].results, test_id,
                           [test   |-> [id |-> test_id,
                                        category |-> get_test(test_id).category],
                            result |-> x.result]),
                        !.progress = Frac(done, x.total_tests)]]
        /\ exec' = [exec EXCEPT ![t] =
              [x EXCEPT !.pc = "loop", !.i = x.i + 1, !.completed_tests = done,
                        !.result = NoResult, !.calls = <<>>]]
  /\ UNCHANGED <<tasks, loop, next_task, reply>>

\* Complete that marks the task completed without tallying.
Complete_NoTally(t) ==
  /\ loop = t
  /\ exec[t].pc = "tally"
  /\ test_results' = [test_results EXCEPT ![t] = [@ EXCEPT !.status = "completed"]]
  /\ exec' = [exec EXCEPT ![t] = [@ EXCEPT !.pc = "done"]]
  /\ loop' = Idle
  /\ UNCHANGED <<tasks, next_task, reply>>

\* Lines 179-185: compliance tallies, then status completed.
Complete(t) ==
  /\ loop = t
  /\ exec[t].pc = "tally"
  /\ test_results' = [test_results EXCEPT ![t] =
        [@ EXCEPT !.compliance_scores =
                     calculate_compliance_scores(test_results[t].results),
                  !.status = "completed"]]
  /\ exec' = [exec EXCEPT ![t] = [@ EXCEPT !.pc = "done"]]
  /\ loop' = Idle
  /\ UNCHANGED <<tasks, next_task, reply>>

\* The except handler resetting the record it marks failed.
Fail_DiscardsResults(t) ==
  /\ loop = t
  /\ exec[t].pc = "except"
  /\ test_results' = [test_results EXCEPT ![t] =
        [@ EXCEPT !.status = "failed", !.error = exec[t].exc,
                  !.results = <<>>, !.keys = @ \cup {"error"}]]
  /\ exec' = [exec EXCEPT ![t] = [@ EXCEPT !.pc = "done"]]
  /\ loop' = Idle
  /\ UNCHANGED <<tasks, next_task, reply>>

\* The except handler that re-raises without marking the record.
Fail_OnlyReraises(t) ==
  /\ loop = t
  /\ exec[t].pc = "except"
  /\ exec' = [exec EXCEPT ![t] = [@ EXCEPT !.pc = "done"]]
  /\ loop' = Idle
  /\ UNCHANGED <<test_results, tasks, next_task, reply>>

\* The except handler that tallies what was stored before the failure.
Fail_TalliesStored(t) ==
  /\ loop = t
  /\ exec[t].pc = "except"
  /\ test_results' = [test_results EXCEPT ![t] =
        [@ EXCEPT !.status = "failed", !.error = exec[t].exc,
                  !.compliance_scores =
                     calculate_compliance_scores(test_results[t].results),
                  !.keys = @ \cup {"error"}]]
  /\ exec' = [exec EXCEPT ![t] = [@ EXCEPT !.pc = "done"]]
  /\ loop' = Idle
  /\ UNCHANGED <<tasks, next_task, reply>>

\* Lines 187-190: the except handler.
Fail(t) ==
  /\ loop = t
  /\ exec[t].pc = "except"
  /\ test_results' = [test_results EXCEPT ![t] =
        [@ EXCEPT !.status = "failed", !.error = exec[t].exc,
                  !.keys = @ \cup {"error"}]]
  /\ exec' = [exec EXCEPT ![t] = [@ EXCEPT !.pc = "done"]]
  /\ loop' = Idle
  /\ UNCHANGED <<tasks, next_task, reply>>

run_tests(t) ==
  \/ RunTestsStart(t)
  \/ LoopHead(t)
  \/ \E r \in Responses : PredictReturn(t, r)
  \/ PredictRaise(t)
  \/ StoreResult(t)
  \/ Complete(t)
  \/ Fail(t)

\* Several batches in flight, interleaved at their predict calls.
Next ==
  \/ \E request \in Requests(TestIdUniverse) :
        run_test_batch(request) /\ UNCHANGED <<registry_vars, unit_vars, twin_vars, scorer_vars>>
  \/ \E task_id \in TaskIds \cup {UnknownTask} :
        get_task_status(task_id) /\ UNCHANGED <<registry_vars, unit_vars, twin_vars, scorer_vars>>
  \/ \E task_id \in TaskIds \cup {UnknownTask} :
        get_test_results(task_id) /\ UNCHANGED <<registry_vars, unit_vars, twin_vars, scorer_vars>>
  \/ \E t \in TaskIds : run_tests(t) /\ UNCHANGED <<registry_vars, unit_vars, twin_vars, scorer_vars>>

Spec == Init /\ [][Next]_vars

\* One batch, over the larger set of test ids.
SoloNext ==
  \/ \E request \in Requests(SoloIdUniverse) :
        next_task = 0 /\ run_test_batch(request) /\ UNCHANGED <<registry_vars, unit_vars, twin_vars, scorer_vars>>
  \/ \E task_id \in TaskIds \cup {UnknownTask} :
        get_task_status(task_id) /\ UNCHANGED <<registry_vars, unit_vars, twin_vars, scorer_vars>>
  \/ \E task_id \in TaskIds \cup {UnknownTask} :
        get_test_results(task_id) /\ UNCHANGED <<registry_vars, unit_vars, twin_vars, scorer_vars>>
  \/ \E t \in TaskIds : run_tests(t) /\ UNCHANGED <<registry_vars, unit_vars, twin_vars, scorer_vars>>

SoloSpec == Init /\ [][SoloNext]_vars

\* One batch whose executor keeps being scheduled: the background task is
\* started by the framework once the submit response is out, the event loop
\* resumes a coroutine whose await has finished, and every predict call
\* returns or raises.
FairSpec == SoloSpec /\ \A t \in TaskIds : WF_main_vars(run_tests(t))

\* ------------------------------------------------------------ TestRegistry
\* Units that can be handed to register, by their descriptors.  Two classes
\* of the repository carry the id nlp_2.
RegUnits ==
  {[id |-> "nlp_2", name |-> "Adversarial Robustness Test", category |-> "NLP-Specific"],
   [id |-> "nlp_2", name |-> "NLP Adversarial Testing", category |-> "NLP-Specific"],
   [id |-> "nlp_5", name |-> "Truthful QA Testing", category |-> "NLP-Specific"],
   [id |-> "tech_safety_2", name |-> "Adversarial Testing", category |-> "Technical Safety"]}

\* None, as get_test answers for an id that is not a key of _tests.
NoUnit == [id |-> Absent, name |-> Absent, category |-> Absent]

\* register that leaves an id alone once it is taken.
register_KeepsFirst(test) ==
  /\ Len(registered) < MaxRegs
  /\ _tests' = IF test.id \in DictKeys(_tests) THEN _tests
               ELSE DictSet(_tests, test.id, test)
  /\ registered' = Append(registered, test)

\* register that drops the id's old entry and appends the new one.
register_MovesToEnd(test) ==
  /\ Len(registered) < MaxRegs
  /\ _tests' = Append(SelectSeq(_tests, LAMBDA item : item.key # test.id),
                      [key |-> test.id, val |-> test])
  /\ registered' = Append(registered, test)

\* TestRegistry.register: self._tests[test.metadata.id] = test
register(test) ==
  /\ Len(registered) < MaxRegs
  /\ _tests' = DictSet(_tests, test.id, test)
  /\ registered' = Append(registered, test)

\* TestRegistry.get_test on the registry built so far.
registry_get_test(test_id) ==
  IF test_id \in DictKeys(_tests) THEN DictGet(_tests, test_id) ELSE NoUnit

\* TestRegistry.get_all_tests: list(self._tests.values())
get_all_tests == [n \in 1..Len(_tests) |-> _tests[n].val]

\* TestRegistry.get_tests_by_category
get_tests_by_category(category) ==
  SelectSeq(get_all_tests, LAMBDA test : test.category = category)

RegNext == \E test \in RegUnits : register(test) /\ UNCHANGED <<main_vars, unit_vars, twin_vars, scorer_vars>>

\* A registry on its own, filled by register calls in any order.
RegSpec == Init /\ [][RegNext]_vars

\* -------------------------------------------------------- one unit, one run
\* setup(): TruthfulQATest loads its questions, as many as the data file
\* holds; the other units' setup has nothing to load.
unit_setup(questions) ==
  /\ unit.pc = "new"
  /\ ~ unit.is_setup
  /\ unit' = [unit EXCEPT !.is_setup = TRUE,
                          !.questions = IF unit.id = "nlp_5" THEN questions ELSE 0]
  /\ UNCHANGED adapter

\* run(model, parameters) up to its first predict call.
unit_run ==
  /\ unit.pc = "new"
  /\ unit' = StartRun(unit)
  /\ adapter' = Issued(adapter, unit')

\* The awaited predict call returns r.
unit_predict_returns(r, attacks) ==
  /\ unit.pc = "await"
  /\ unit' = AfterResponse(unit, r, attacks)
  /\ adapter' = Issued(Answered(adapter, unit, r), unit')

\* The awaited predict call raises.
unit_predict_raises ==
  /\ unit.pc = "await"
  /\ unit' = AfterException(unit)
  /\ adapter' = Issued(adapter, unit')

UnitInit ==
  /\ test_results = [t \in TaskIds |-> NoRecord]
  /\ tasks = [t \in TaskIds |-> NoRequest]
  /\ exec = [t \in TaskIds |-> NoExec]
  /\ loop = Idle
  /\ next_task = 0
  /\ reply = NoReply
  /\ _tests = <<>>
  /\ registered = <<>>
  /\ unit \in {NewUnit(id, parameters) : id \in UnitIds, parameters \in ParameterChoices}
            \cup {[NewUnit("nlp_2", parameters) EXCEPT !.test_cases = test_cases] :
                     parameters \in ParameterChoices, test_cases \in CaseLists}
  /\ adapter = NoAdapter
  /\ twin = NoRun
  /\ scorer = NoCall

UnitNext ==
  \/ \E questions \in 0..MaxQuestions :
        unit_setup(questions) /\ UNCHANGED <<main_vars, registry_vars, twin_vars, scorer_vars>>
  \/ unit_run /\ UNCHANGED <<main_vars, registry_vars, twin_vars, scorer_vars>>
  \/ \E r \in UnitResponses, attacks \in 0..AttackKinds :
        unit_predict_returns(r, attacks) /\ UNCHANGED <<main_vars, registry_vars, twin_vars, scorer_vars>>
  \/ unit_predict_raises /\ UNCHANGED <<main_vars, registry_vars, twin_vars, scorer_vars>>

\* One unit object of each modelled class, run once against an adapter that
\* may answer anything.
UnitSpec == UnitInit /\ [][UnitNext]_vars

\* ------------------------------------------------- the similarity scorer
\* self._calculate_robustness(original_response, attack_response)
calculate_robustness ==
  /\ scorer.pc = "called"
  /\ scorer' = [scorer EXCEPT !.pc = "returned",
                              !.value = Robustness(scorer.response1, scorer.response2)]

ScorerInit ==
  /\ test_results = [t \in TaskIds |-> NoRecord]
  /\ tasks = [t \in TaskIds |-> NoRequest]
  /\ exec = [t \in TaskIds |-> NoExec]
  /\ loop = Idle
  /\ next_task = 0
  /\ reply = NoReply
  /\ _tests = <<>>
  /\ registered = <<>>
  /\ unit = NoRun
  /\ adapter = NoAdapter
  /\ twin = NoRun
  /\ scorer \in [pc : {"called"}, response1 : Texts, response2 : Texts, value : {Zero}]

ScorerNext ==
  calculate_robustness /\ UNCHANGED <<main_vars, registry_vars, unit_vars, twin_vars>>

\* The scorer called once on any two responses.
ScorerSpec == ScorerInit /\ [][ScorerNext]_vars

\* --------------------------------------- a batch followed call by call
\* request.test_parameters: None, or a mapping that gives every listed id
\* the same per-test dict.
NoMapping == [none |-> TRUE, value |-> NoParameters]
Mappings == {NoMapping} \cup [none : {FALSE}, value : ParameterChoices \ {NoParameters}]

\* Ids of the batches followed call by call, which list up to MaxDriven of
\* them.
DrivenIds == {"fairness_1", "nlp_2"}
DrivenRequests ==
  [test_ids : SeqsUpTo(DrivenIds, MaxDriven), modality : Modalities,
   test_parameters : Mappings]

\* request.test_parameters.get(test_id) if request.test_parameters else None
ParametersFor(request, test_id) ==
  IF request.test_parameters.none THEN NoParameters
  ELSE request.test_parameters.value

\* The executor once the unit's coroutine u has been resumed: suspended in
\* the next predict call, holding the returned TestResult, or in the except
\* handler with the exception that left run.
Resumed(x, u) ==
  CASE u.pc = "await"    -> [x EXCEPT !.pc = "await", !.outstanding = 1]
    [] u.pc = "returned" -> [x EXCEPT !.pc = "store", !.result = u.result,
                                      !.outstanding = 0]
    [] u.pc = "raised"   -> Raise([x EXCEPT !.outstanding = 0], u.error, "run")

\* The twin follows the unit while both are suspended in predict.
TwinAnswered(r, attacks) ==
  IF twin.pc = "await" THEN AfterResponse(twin, r, attacks) ELSE twin
TwinFailed == IF twin.pc = "await" THEN AfterException(twin) ELSE twin

\* Lines 145-160 with the unit object in view: lookup, the per-test
\* parameters, test.run(model, parameters) up to its first await.
CallRun(t) ==
  /\ loop = t
  /\ exec[t].pc = "loop"
  /\ LET x == exec[t] IN
     IF x.i > Len(tasks[t].test_ids)
     THEN /\ exec' = [exec EXCEPT ![t] = [x EXCEPT !.pc = "tally"]]
          /\ UNCHANGED <<loop, unit_vars, twin_vars>>
     ELSE LET test_id    == tasks[t].test_ids[x.i]
              parameters == ParametersFor(tasks[t], test_id)
              u          == StartRun(NewUnit(test_id, parameters))
          IN /\ unit' = u
             /\ twin' = StartRun(NewUnit(test_id, NoParameters))
             /\ adapter' = Issued(NoAdapter, u)
             /\ exec' = [exec EXCEPT ![t] = Resumed([x EXCEPT !.calls = <<"run">>], u)]
             /\ loop' = IF u.pc = "await" THEN Idle ELSE t
  /\ UNCHANGED <<test_results, tasks, next_task, reply>>

\* The predict call the unit awaits returns r.
UnitAnswered(t, r, attacks) ==
  /\ loop = Idle
  /\ exec[t].pc = "await"
  /\ unit' = AfterResponse(unit, r, attacks)
  /\ twin' = TwinAnswered(r, attacks)
  /\ adapter' = Issued(Answered(adapter, unit, r), unit')
  /\ exec' = [exec EXCEPT ![t] = Resumed(@, unit')]
  /\ loop' = IF unit'.pc = "await" THEN Idle ELSE t
  /\ reply' = NoReply
  /\ UNCHANGED <<test_results, tasks, next_task>>

\* The predict call the unit awaits raises.
UnitFailed(t) ==
  /\ loop = Idle
  /\ exec[t].pc = "await"
  /\ unit' = AfterException(unit)
  /\ twin' = TwinFailed
  /\ adapter' = Issued(adapter, unit')
  /\ exec' = [exec EXCEPT ![t] = Resumed(@, unit')]
  /\ loop' = IF unit'.pc = "await" THEN Idle ELSE t
  /\ reply' = NoReply
  /\ UNCHANGED <<test_results, tasks, next_task>>

DrivenNext ==
  \/ \E request \in DrivenRequests :
        /\ next_task = 0
        /\ run_test_batch(request)
        /\ UNCHANGED <<registry_vars, unit_vars, twin_vars, scorer_vars>>
  \/ \E t \in TaskIds :
        RunTestsStart(t) /\ UNCHANGED <<registry_vars, unit_vars, twin_vars, scorer_vars>>
  \/ \E t \in TaskIds : CallRun(t) /\ UNCHANGED <<registry_vars, scorer_vars>>
  \/ \E t \in TaskIds, r \in UnitResponses, attacks \in 0..AttackKinds :
        UnitAnswered(t, r, attacks) /\ UNCHANGED <<registry_vars, scorer_vars>>
  \/ \E t \in TaskIds : UnitFailed(t) /\ UNCHANGED <<registry_vars, scorer_vars>>
  \/ \E t \in TaskIds :
        StoreResult(t) /\ UNCHANGED <<registry_vars, unit_vars, twin_vars, scorer_vars>>
  \/ \E t \in TaskIds :
        Complete(t) /\ UNCHANGED <<registry_vars, unit_vars, twin_vars, scorer_vars>>
  \/ \E t \in TaskIds :
        Fail(t) /\ UNCHANGED <<registry_vars, unit_vars, twin_vars, scorer_vars>>

\* One batch with per-test parameters, its units followed call by call.
DrivenSpec == Init /\ [][DrivenNext]_vars

\* ================================================================== claims
Terminal == {"completed", "failed"}
Statuses == {"started", "running", "completed", "failed"}

\* C1: once a task's status is completed or failed, no later step (of its
\* own executor, of a status or results query, of another batch) changes
\* any field of that task's record.
C1_TerminalIsFinal ==
  [][\A t \in TaskIds :
       test_results[t].status \in Terminal => test_results'[t] = test_results[t]]_vars

\* A finished task beside another batch that has stored an outcome and is
\* still running.
C1_Witness ==
  \E t, u \in TaskIds :
    /\ test_results[t].status = "completed"
    /\ test_results[t].results # <<>>
    /\ test_results[u].status = "running"
    /\ exec[u].completed_tests > 0

\* Positions of the batch whose run has returned and whose outcome is stored.
StoredCount(t) ==
  Cardinality({n \in 1..Len(tasks[t].test_ids) :
                 /\ n < exec[t].i
                 /\ tasks[t].test_ids[n] \in DictKeys(test_results[t].results)})

ProgressIsQuotient(t) ==
  test_results[t].status = "running" /\ Len(tasks[t].test_ids) > 0 =>
    FracEq(test_results[t].progress,
           Frac(StoredCount(t), Len(tasks[t].test_ids)))

\* C2: while a batch executes, progress = (test ids run and stored) /
\* (test ids submitted) in every state, and no step lowers a task's progress.
C2_ProgressQuotientMonotone ==
  [][\A t \in TaskIds :
       /\ ProgressIsQuotient(t)
       /\ ProgressIsQuotient(t)'
       /\ test_results[t].status # Absent =>
            FracLeq(test_results[t].progress, test_results'[t].progress)]_vars

\* A running batch half way: one of two outcomes stored.
C2_Witness ==
  \E t \in TaskIds :
    /\ test_results[t].status = "running"
    /\ test_results[t].progress = Frac(1, 2)
    /\ exec[t].pc = "await"

StatusEdges ==
  {<<"started", "running">>, <<"running", "completed">>,
   <<"started", "failed">>, <<"running", "failed">>}

\* C3: submit creates the record with status started and progress 0 while
\* the executor has not begun; from then on the status is one of the four
\* and moves only started->running, running->completed, started->failed,
\* running->failed.
C3_StatusLifecycle ==
  [][\A t \in TaskIds :
       LET old == test_results[t].status
           new == test_results'[t].status
       IN /\ old = Absent /\ new # Absent =>
               /\ new = "started"
               /\ FracEq(test_results'[t].progress, Frac(0, 1))
               /\ exec'[t].pc = "queued"
          /\ old # Absent => new \in Statuses
          /\ old # Absent /\ new # old => <<old, new>> \in StatusEdges]_vars

\* A task that went from started through running to failed, an outcome
\* stored on the way.
C3_Witness ==
  \E t \in TaskIds :
    /\ test_results[t].status = "failed"
    /\ test_results[t].results # <<>>
    /\ exec[t].raised_in = "run"

\* C4: for every test id of a batch, execute calls setup, then run, then
\* teardown: run is never the first call made on the unit, and a unit whose
\* run has returned is torn down before its outcome is stored.
C4_SetupRunTeardown ==
  \A t \in TaskIds :
    /\ Mentions(exec[t].calls, "run") => exec[t].calls[1] = "setup"
    /\ exec[t].pc = "store" => exec[t].calls[Len(exec[t].calls)] = "teardown"

\* C5: when a unit's run raises, its teardown has been called by the time
\* the task is marked failed.
C5_TeardownAfterRaise ==
  \A t \in TaskIds :
    test_results[t].status = "failed" /\ exec[t].raised_in = "run" =>
      Mentions(exec[t].calls, "teardown")

Unregistered(test_ids) ==
  {k \in 1..Len(test_ids) : test_ids[k] \notin DOMAIN test_registry}

FirstUnregistered(test_ids) ==
  CHOOSE k \in Unregistered(test_ids) : \A j \in Unregistered(test_ids) : k <= j

C7_FailedIsQueryable ==
  \A t \in TaskIds :
    test_results[t].status = "failed" =>
      /\ "error" \in test_results[t].keys
      /\ test_results[t].error # NoError
      /\ ResultsReply(t).code = 200
      /\ ResultsReply(t).results = test_results[t].results

\* C8: whenever a poller can run and a status query would say completed,
\* the results query returns an outcome for every submitted test id and
\* the tallies computed from exactly those outcomes.
C8_CompletedIsWhole ==
  \A t \in TaskIds :
    loop = Idle /\ StatusReply(t).code = 200 /\ StatusReply(t).status = "completed" =>
      /\ ResultsReply(t).code = 200
      /\ \A n \in 1..Len(tasks[t].test_ids) :
           tasks[t].test_ids[n] \in DictKeys(ResultsReply(t).results)
      /\ ResultsReply(t).compliance_scores =
           calculate_compliance_scores(ResultsReply(t).results)

\* A results query answered for a completed batch of two different units.
C8_Witness ==
  /\ reply.code = 200
  /\ reply.op = "results"
  /\ test_results[reply.task_id].status = "completed"
  /\ Len(reply.results) = 2

\* C9: at most one predict call of a batch is outstanding, and while the
\* call of the id at position N+1 is outstanding the task is running with
\* the outcomes of positions 1..N stored.
C9_StrictlySequential ==
  \A t \in TaskIds :
    /\ exec[t].outstanding \in {0, 1}
    /\ exec[t].outstanding = 1 =>
         /\ test_results[t].status = "running"
         /\ exec[t].completed_tests = exec[t].i - 1
         /\ \A n \in 1..(exec[t].i - 1) :
              tasks[t].test_ids[n] \in DictKeys(test_results[t].results)

\* A predict call of the second test id in flight, the first outcome stored.
C9_Witness ==
  \E t \in TaskIds :
    /\ exec[t].pc = "await"
    /\ exec[t].outstanding = 1
    /\ exec[t].i = 2
    /\ exec[t].frame.k = 2

\* C10: a step of one task's executor leaves every other task's record as
\* it was, and a status or results query leaves every record as it was.
C10_OwnRecordOnly ==
  [][/\ \A t \in TaskIds :
          run_tests(t) => \A u \in TaskIds \ {t} : test_results'[u] = test_results[u]
     /\ \A task_id \in TaskIds \cup {UnknownTask} :
          get_task_status(task_id) \/ get_test_results(task_id) =>
            test_results' = test_results]_vars

\* Two batches running at once, each with an outcome stored.
C10_Witness ==
  \A t \in TaskIds :
    /\ test_results[t].status = "running"
    /\ exec[t].pc = "await"
    /\ exec[t].completed_tests = 1

\* C11: a results query answers with outcomes and tallies only for a task
\* whose status is completed or failed, and then with the record's own;
\* for a started or running task it answers not-ready (400) and carries no
\* outcome; for a task id that was never handed out it answers not-found.
C11_ResultsOnlyWhenFinished ==
  [][\A task_id \in TaskIds \cup {UnknownTask} :
       get_test_results(task_id) =>
         LET status == IF task_id \in TaskIds THEN test_results[task_id].status
                       ELSE Absent
         IN /\ reply'.code = 200 =>
                 /\ status \in Terminal
                 /\ reply'.results = test_results[task_id].results
                 /\ reply'.compliance_scores = test_results[task_id].compliance_scores
            /\ status \in {"started", "running"} =>
                 /\ reply'.code = 400
                 /\ DOMAIN reply' \cap {"results", "compliance_scores"} = {}
            /\ status = Absent => reply'.code = 404]_vars

\* A results query answered not-ready while the running batch already
\* holds a stored outcome.
C11_Witness ==
  /\ reply.code = 400
  /\ reply.op = "results"
  /\ test_results[reply.task_id].status = "running"
  /\ test_results[reply.task_id].results # <<>>

\* C12: every submitted batch eventually reaches completed or failed, when
\* each predict call returns or raises and the executor keeps being
\* scheduled.
C12_BatchTerminates ==
  \A t \in TaskIds :
    test_results[t].status = "started" ~> test_results[t].status \in Terminal

\* A batch of two units that ran through all its predict calls to completed.
C12_Witness ==
  \E t \in TaskIds :
    /\ test_results[t].status = "completed"
    /\ Len(test_results[t].results) = 2
    /\ exec[t].pc = "done"

RECURSIVE SumTotals(_, _)
SumTotals(scores, n) ==
  IF n > Len(scores) THEN 0 ELSE scores[n].val.total + SumTotals(scores, n + 1)

DistinctIds(test_ids) == {test_ids[n] : n \in 1..Len(test_ids)}

\* C13 as stated: a completed task has progress 1.0 and tally totals that
\* sum to the number of submitted test ids.
C13_AsStated ==
  \A t \in TaskIds :
    test_results[t].status = "completed" =>
      /\ FracEq(test_results[t].progress, Frac(1, 1))
      /\ SumTotals(test_results[t].compliance_scores, 1) = Len(tasks[t].test_ids)

\* C13 amended: a completed task of a non-empty batch has progress 1.0 (an
\* empty batch completes with progress 0), its tally totals sum to the
\* number of distinct submitted test ids, and a batch of one test that
\* passed has the single tally {passed: 1, total: 1}.
C13_CompletedCounts ==
  \A t \in TaskIds :
    test_results[t].status = "completed" =>
      LET record == test_results[t]
          test_ids == tasks[t].test_ids
      IN /\ Len(test_ids) > 0 => FracEq(record.progress, Frac(1, 1))
         /\ Len(test_ids) = 0 => FracEq(record.progress, Frac(0, 1))
         /\ SumTotals(record.compliance_scores, 1) = Cardinality(DistinctIds(test_ids))
         /\ Len(test_ids) = 1 /\ record.results[1].val.result.passed =>
              /\ Len(record.compliance_scores) = 1
              /\ record.compliance_scores[1].val = [passed |-> 1, total |-> 1]

\* A completed batch of one test that passed.
C13_Witness ==
  \E t \in TaskIds :
    /\ test_results[t].status = "completed"
    /\ Len(tasks[t].test_ids) = 1
    /\ test_results[t].results[1].val.result.passed

Categories == {test_registry[id].category : id \in DOMAIN test_registry}

\* Positions of the stored outcomes whose unit is of category c.
OutcomesOf(results, c) == {n \in 1..Len(results) : results[n].val.test.category = c}

\* C14: the tallies of a completed task are the grouping of its stored
\* outcomes by category: one entry per category that has an outcome, its
\* total the number of those outcomes, its passed the number of them that
\* passed (so passed <= total), and no entry for any other category.
C14_TalliesGroupOutcomes ==
  \A t \in TaskIds :
    test_results[t].status = "completed" =>
      LET results == test_results[t].results
          scores  == test_results[t].compliance_scores
      IN /\ Len(scores) = Cardinality(DictKeys(scores))
         /\ DictKeys(scores) \subseteq Categories
         /\ \A c \in Categories :
              IF OutcomesOf(results, c) = {}
              THEN c \notin DictKeys(scores)
              ELSE /\ c \in DictKeys(scores)
                   /\ DictGet(scores, c).total = Cardinality(OutcomesOf(results, c))
                   /\ DictGet(scores, c).passed =
                        Cardinality({n \in OutcomesOf(results, c) :
                                       results[n].val.result.passed})
                   /\ DictGet(scores, c).passed <= DictGet(scores, c).total

\* A completed batch of two units of one category, one passed and one not.
C14_Witness ==
  \E t \in TaskIds :
    /\ test_results[t].status = "completed"
    /\ Len(test_results[t].results) = 2
    /\ test_results[t].compliance_scores =
         <<[key |-> "Technical Safety", val |-> [passed |-> 1, total |-> 2]]>>

\* C15: a predict call that raises inside a unit's run is absorbed by the
\* unit (the case is dropped, run still returns an outcome): no task is
\* marked failed with the adapter's error.
C15_PredictErrorAbsorbed ==
  \A t \in TaskIds :
    ~ (/\ test_results[t].status = "failed"
       /\ exec[t].raised_in = "run"
       /\ test_results[t].error = ErrPredict)

\* The register calls made with a given id, and the last and first of them.
CallsOf(test_id) == {n \in 1..Len(registered) : registered[n].id = test_id}
LastCall(test_id) == CHOOSE n \in CallsOf(test_id) : \A m \in CallsOf(test_id) : m <= n
FirstCall(test_id) == CHOOSE n \in CallsOf(test_id) : \A m \in CallsOf(test_id) : n <= m

RegIds == {test.id : test \in RegUnits} \cup {"missing_1"}
RegCategories == {test.category : test \in RegUnits} \cup {"Fairness & Bias"}

\* C16: after any sequence of register calls, get_test(id) returns the unit
\* most recently registered under that id, descriptor unchanged, and None
\* for an id that was never registered.
C16_GetReturnsLatest ==
  \A test_id \in RegIds :
    IF CallsOf(test_id) = {}
    THEN registry_get_test(test_id) = NoUnit
    ELSE registry_get_test(test_id) = registered[LastCall(test_id)]

\* An id registered twice with different units, with another id in between.
C16_Witness ==
  /\ Len(registered) = 3
  /\ registered[1].id = registered[3].id
  /\ registered[1] # registered[3]
  /\ registered[2].id # registered[1].id

\* The positions 1..Len(registered) that satisfy keep, in increasing order.
CallsWhere(keep(_)) ==
  SelectSeq([n \in 1..Len(registered) |-> n], keep)

\* The currently registered units in the order in which each of them was
\* registered.
UnitsByRegistration ==
  LET calls == CallsWhere(LAMBDA n : n = LastCall(registered[n].id))
  IN [k \in 1..Len(calls) |-> registered[calls[k]]]

\* The currently registered units in the order in which their ids were
\* registered first.
UnitsByFirstRegistration ==
  LET calls == CallsWhere(LAMBDA n : n = FirstCall(registered[n].id))
  IN [k \in 1..Len(calls) |-> registered[LastCall(registered[calls[k]].id)]]

\* C17 as stated: list_all is the currently registered units ordered by
\* when each was registered, list_by_category(c) the units of category c in
\* that order.
C17_AsStated ==
  /\ get_all_tests = UnitsByRegistration
  /\ \A c \in RegCategories :
       get_tests_by_category(c) =
         SelectSeq(UnitsByRegistration, LAMBDA test : test.category = c)

\* C17 amended: list_all is the currently registered units ordered by when
\* their ids were first registered (a unit registered again under a present
\* id takes the place of the one it replaces), and list_by_category(c) is
\* exactly the units of category c in that same order.
C17_ListsInFirstRegistrationOrder ==
  /\ get_all_tests = UnitsByFirstRegistration
  /\ \A c \in RegCategories :
       get_tests_by_category(c) =
         SelectSeq(UnitsByFirstRegistration, LAMBDA test : test.category = c)

\* An id registered again after a unit of another category: the lists
\* hold the new unit in the old place.
C17_Witness ==
  /\ Len(registered) = 3
  /\ registered[1].id = registered[3].id
  /\ registered[1] # registered[3]
  /\ registered[2].category # registered[1].category
  /\ get_all_tests = <<registered[3], registered[2]>>

\* Metric names of the positive/negative pair a unit reports (TruthfulQATest
\* reports no such pair).
PairUnits == CaseUnits \cup {"nlp_2"}
PairPositive(id) == IF id = "nlp_2" THEN "robustness_score" ELSE PositiveName(id)
PairNegative(id) == IF id = "nlp_2" THEN "vulnerability_score" ELSE NegativeName(id)
Reported(name) == DictGet(unit.result.metrics, name)

\* C18: the score of a returned outcome lies in [0,1], for every unit and
\* every combination of adapter responses, the bias-mitigation unit
\* included.
C18_ScoreInUnitInterval ==
  unit.pc = "returned" =>
    /\ NumLeq(Zero, unit.result.score)
    /\ NumLeq(unit.result.score, One)

\* C19: after any run of a unit that reports a positive/negative metric
\* pair, the reported negative metric equals 1 minus the reported positive
\* metric.
C19_NegativeIsComplement ==
  (unit.pc = "returned" /\ unit.id \in PairUnits) =>
    Reported(PairNegative(unit.id)) = NumSub(One, Reported(PairPositive(unit.id)))

\* passed as the thresholds decide it from the reported metrics: every
\* positive metric at or above its minimum, every negative metric at or
\* below its maximum.  TruthfulQATest holds its two rates against two
\* minimums.
PassedByThresholds ==
  IF unit.id = "nlp_5"
  THEN /\ NumLeq(Pct(unit.params.min), Reported("truthfulnessRate"))
       /\ NumLeq(Pct(unit.params.min2), Reported("informativenessRate"))
  ELSE /\ NumLeq(Pct(unit.params.min), Reported(PairPositive(unit.id)))
       /\ NumLeq(Reported(PairNegative(unit.id)), Pct(unit.params.max))

\* C20: passed of a returned outcome is a function of the reported metrics
\* and the thresholds the run works with alone: it is true exactly when
\* each positive metric is >= its minimum threshold and each negative
\* metric is <= its maximum threshold.
C20_PassedIsThresholdFunction ==
  unit.pc = "returned" => (unit.result.passed = PassedByThresholds)

\* A run whose positive metric meets its minimum and whose negative metric
\* alone fails it.
C20_Witness ==
  /\ unit.pc = "returned"
  /\ unit.id = "nlp_2"
  /\ NumLeq(Pct(unit.params.min), Reported("robustness_score"))
  /\ NumLess(Pct(unit.params.max), Reported("vulnerability_score"))
  /\ ~ unit.result.passed

\* The fairness-style units: DemographicTest and DisparateImpactTest.
FairnessUnits == {"fairness_1", "fairness_2"}
\* The run took its thresholds from the unit's defaults.
DefaultThresholds == unit.parameters.none \/ unit.parameters.keys = {}

\* C21: a fairness-style unit whose adapter answered the three variants of
\* every base prompt pairwise differently reports fairness 0.0 and
\* passed = False.
C21_DistinctResponsesScoreZero ==
  (unit.pc = "returned" /\ unit.id \in FairnessUnits /\ adapter.diverse) =>
    /\ Reported("fairness") = Zero
    /\ ~ unit.result.passed

\* C22: a fairness-style unit whose adapter answered all variants of every
\* base prompt alike reports fairness 1.0, bias (or disparity) 0.0 and
\* passed = True under its default thresholds.
C22_UniformResponsesPass ==
  (/\ unit.pc = "returned"
   /\ unit.id \in FairnessUnits
   /\ adapter.uniform
   /\ DefaultThresholds) =>
    /\ Reported("fairness") = One
    /\ Reported(NegativeName(unit.id)) = Zero
    /\ unit.result.passed

\* A fairness-style unit has returned from a run in which all nine calls
\* were made and the variants of every base prompt were answered alike,
\* under its default thresholds.
C22_Witness ==
  /\ unit.pc = "returned"
  /\ unit.id \in FairnessUnits
  /\ adapter.uniform
  /\ adapter.calls = BaseCases * CallsPerCase(unit.id)
  /\ DefaultThresholds
  /\ unit.result.passed

\* A run over no base prompt at all: TruthfulQATest set up with an empty
\* question list, AdversarialRobustnessTest given an empty case list.
EmptyRun ==
  \/ unit.id = "nlp_5" /\ unit.is_setup /\ unit.questions = 0
  \/ unit.id = "nlp_2" /\ unit.test_cases = 0

\* C23: a unit run over an empty set of base prompts does not raise a
\* division-by-zero error and returns an outcome whose score is 0.0 or
\* another defined neutral value (1.0).
C23_EmptyRunIsNeutral ==
  (EmptyRun /\ unit.pc # "new") =>
    /\ unit.pc = "returned"
    /\ unit.error # ErrZeroDivision
    /\ unit.result.score \in {Zero, One}

\* C24: the response-similarity scorer returns 1.0 for two identical
\* non-empty strings, 1.0 when both strings are empty, and 0.0 for two
\* strings (not both empty) with disjoint token sets.
C24_ScorerFixedPoints ==
  scorer.pc = "returned" =>
    LET response1 == scorer.response1
        response2 == scorer.response2
    IN /\ (response1 = response2 /\ response1 # <<>>) => scorer.value = One
       /\ (response1 = <<>> /\ response2 = <<>>) => scorer.value = One
       /\ (/\ Tokens(response1) \cap Tokens(response2) = {}
           /\ ~ (response1 = <<>> /\ response2 = <<>>)
           /\ response1 # response2) => scorer.value = Zero

\* The registered units whose run reads what only setup assigns.
SetupUnits == {id \in DOMAIN test_registry : test_registry[id].needs_setup}
\* Position of the first such unit in a batch, 0 when it holds none.
FirstSetupUnit(test_ids) ==
  IF \E n \in 1..Len(test_ids) : test_ids[n] \in SetupUnits
  THEN CHOOSE n \in 1..Len(test_ids) :
         /\ test_ids[n] \in SetupUnits
         /\ \A m \in 1..(n - 1) : test_ids[m] \notin SetupUnits
  ELSE 0

\* What holds of a batch that lists nlp_5 or nlp_specific_3, at any time: it
\* is never suspended in a predict call of that unit or of a later one, it
\* is not completed, and once failed it holds outcomes for ids listed
\* before that unit only.
SetupUnitStopsBatch(t) ==
  LET test_ids == tasks[t].test_ids
      k        == FirstSetupUnit(test_ids)
  IN k > 0 =>
       /\ exec[t].pc \in {"await", "store"} => exec[t].i < k
       /\ test_results[t].status # "completed"
       /\ test_results[t].status = "failed" =>
            /\ DictKeys(test_results[t].results) \subseteq {test_ids[n] : n \in 1..(k - 1)}
            /\ Len(test_results[t].results) < k

DistinctUpTo(test_ids, n) == {test_ids[m] : m \in 1..n}

\* C26: when a batch lists a test id more than once, the unit is run once
\* per occurrence and progress advances per occurrence, but the results
\* mapping keeps a single entry per distinct id, the latest outcome; at
\* completion the number of stored outcomes and the sum of the tally totals
\* equal the number of distinct ids.
C26_OneEntryPerDistinctId ==
  [][\A t \in TaskIds :
       LET x        == exec[t]
           test_ids == tasks[t].test_ids
       IN /\ (x.pc = "store" /\ exec'[t].pc = "loop") =>
               LET stored == test_results'[t] IN
               /\ x.calls = <<"run">>
               /\ x.completed_tests = x.i - 1
               /\ FracEq(stored.progress, Frac(x.i, Len(test_ids)))
               /\ Len(stored.results) = Cardinality(DistinctUpTo(test_ids, x.i))
               /\ DictGet(stored.results, test_ids[x.i]).result = x.result
          /\ test_results'[t].status = "completed" =>
               /\ Len(test_results'[t].results) = Cardinality(DistinctIds(test_ids))
               /\ SumTotals(test_results'[t].compliance_scores, 1)
                    = Cardinality(DistinctIds(test_ids))]_vars

\* A completed batch that listed one id twice: two runs counted, one
\* outcome stored.
C26_Witness ==
  \E t \in TaskIds :
    /\ test_results[t].status = "completed"
    /\ Len(tasks[t].test_ids) = 2
    /\ tasks[t].test_ids[1] = tasks[t].test_ids[2]
    /\ exec[t].completed_tests = 2
    /\ Len(test_results[t].results) = 1

\* C27: the compliance tallies of a task are empty unless it is completed,
\* so a results query on a task that failed, outcomes stored or not,
\* answers with the stored outcomes and empty tallies.
C27_FailedHasNoTallies ==
  /\ \A t \in TaskIds :
       test_results[t].status # "completed" => test_results[t].compliance_scores = <<>>
  /\ (/\ reply.code = 200
      /\ reply.op = "results"
      /\ test_results[reply.task_id].status = "failed") =>
       /\ reply.results = test_results[reply.task_id].results
       /\ reply.compliance_scores = <<>>

\* A results query answered for a task that failed after an outcome had
\* been stored.
C27_Witness ==
  /\ reply.code = 200
  /\ reply.op = "results"
  /\ test_results[reply.task_id].status = "failed"
  /\ Len(reply.results) >= 1
  /\ reply.compliance_scores = <<>>

\* The executor of t is at a listed test id.
AtTest(t) == exec[t].i \in 1..Len(tasks[t].test_ids)
CurrentTest(t) == tasks[t].test_ids[exec[t].i]

\* C28: for nlp_2 run through the orchestrator, passed, score and metrics
\* do not depend on the per-test parameters mapping: the outcome is the one
\* the same run gives without a mapping, the thresholds being the defaults
\* 0.85 and 0.15 whatever the mapping holds.
C28_MappingIgnoredByRobustness ==
  \A t \in TaskIds :
    (AtTest(t) /\ exec[t].pc = "store" /\ CurrentTest(t) = "nlp_2") =>
      /\ unit.params = DefaultParams("nlp_2")
      /\ unit.params.min = MinPositivePct
      /\ twin.pc = "returned"
      /\ exec[t].result = twin.result

\* nlp_2 has returned under a mapping {min 0.5, max 0.5} from a run with one
\* attack that scored 0.5: not passed, as without the mapping.
C28_Witness ==
  \E t \in TaskIds :
    /\ AtTest(t) /\ exec[t].pc = "store" /\ CurrentTest(t) = "nlp_2"
    /\ ~ tasks[t].test_parameters.none
    /\ {"min", "max"} \subseteq unit.parameters.keys
    /\ unit.parameters.min = 50
    /\ unit.n = 1
    /\ exec[t].result.score = Num(1, 2)
    /\ ~ exec[t].result.passed

\* A non-empty per-test mapping that lacks a threshold key of the unit.
LacksKey(parameters) ==
  /\ ~ parameters.none
  /\ parameters.keys # {}
  /\ ~ ({"min", "max"} \subseteq parameters.keys)

NoAttackOutcome ==
  [passed |-> TRUE, score |-> One,
   metrics |-> <<[key |-> "robustness_score", val |-> One],
                 [key |-> "vulnerability_score", val |-> Zero],
                 [key |-> "total_attacks", val |-> Zero],
                 [key |-> "successful_attacks", val |-> Zero]>>]

\* C30: when every predict call of the adversarial-robustness unit raises,
\* the unit returns robustness 1.0, vulnerability 0.0, score 1.0 and
\* passed = True, and a batch of that test completes with it counted as
\* passed in its category tally.
C30_AllCallsRaisedStillPasses ==
  \A t \in TaskIds :
    /\ (/\ AtTest(t) /\ exec[t].pc = "store" /\ CurrentTest(t) = "nlp_2"
        /\ ~ adapter.answered) =>
         exec[t].result = NoAttackOutcome
    /\ (/\ test_results[t].status = "completed"
        /\ tasks[t].test_ids = <<"nlp_2">>
        /\ ~ adapter.answered) =>
         /\ DictGet(test_results[t].results, "nlp_2").result = NoAttackOutcome
         /\ test_results[t].compliance_scores =
              <<[key |-> "NLP-Specific", val |-> [passed |-> 1, total |-> 1]]>>

\* A completed batch of nlp_2 whose adapter raised on every call.
C30_Witness ==
  \E t \in TaskIds :
    /\ test_results[t].status = "completed"
    /\ tasks[t].test_ids = <<"nlp_2">>
    /\ adapter.calls >= 1
    /\ ~ adapter.answered
    /\ test_results[t].compliance_scores =
         <<[key |-> "NLP-Specific", val |-> [passed |-> 1, total |-> 1]]>>

====
